---- MODULE Spec2Model ----
(***************************************************************************)
(* A model of src/servers/simple.cc: the example client of the inference   *)
(* server's native API.  The main thread polls health and model readiness, *)
(* builds a request, submits it asynchronously and waits on a future; the  *)
(* engine's thread calls back into ResponseAlloc, InferComplete and        *)
(* ResponseRelease.  The engine itself lives outside this file: its        *)
(* answers are nondeterministic inputs, its callback discipline follows    *)
(* the documented contract.                                                *)
(***************************************************************************)
EXTENDS Integers, Sequences, FiniteSets, TLC

VARIABLES
    pc,               \* main's position
    exit_code,        \* process exit code, -1 while running
    fail_at,          \* the position at which FAIL / FAIL_IF_ERR fired
    call_failed,      \* history: a call returned an error or a message did not parse
    health_iters,     \* size_t health_iters (line 157)
    health_polls,     \* history: number of health polls made
    seen_healthy,     \* history: some health poll reported live && ready
    seen_model_ready, \* history: some model poll reported MODEL_READY
    live_protobufs,   \* TRTSERVER_Protobuf handles obtained and not deleted
    allocator,        \* TRTSERVER_ResponseAllocator*: "none", "live", "deleted"
    request_provider, \* TRTSERVER_InferenceRequestProvider*: "none", "live", "deleted",
                      \* "double_delete" once deleted when not live
    inputs_set,       \* inputs bound with SetInputData
    p,                \* the heap promise: "none", "allocated", "freed"
    p_free_count,     \* history: number of delete p
    p_uaf,            \* history: the promise was accessed after delete p
    shared_ready,     \* promise/future shared state holds a value
    shared_value,     \* the value it holds
    set_count,        \* history: number of set_value calls that stored a value
    get_count,        \* history: number of completed future.get() calls
    submitted,        \* history: TRTSERVER_ServerInferAsync was invoked
    rejected,         \* history: it returned an error
    eng,              \* engine side of the request: "idle", "running", "set", "finished"
    eng_resp,         \* the response the engine built
    n_complete,       \* history: number of InferComplete invocations
    allocs,           \* history: the ResponseAlloc calls, in order
    releases,         \* history: the ResponseRelease calls, in order
    live_buffers,     \* malloc'ed and not freed
    live_tokens,      \* std::string objects new'ed and not deleted
    response,         \* main's TRTSERVER_InferenceResponse* response
    resp_calls,       \* history: the accessor calls made on the response
    out0,             \* output0_content / _byte_size / _memory_type
    out1,             \* output1_content / _byte_size / _memory_type
    i,                \* loop index of the value check
    reads,            \* history: output elements read
    resp_deleted      \* history: number of TRTSERVER_InferenceResponseDelete calls

mainVars == <<pc, exit_code, fail_at, call_failed>>
healthVars == <<health_iters, health_polls, seen_healthy>>
handleVars == <<live_protobufs, allocator, request_provider, inputs_set>>
promiseVars == <<p, p_free_count, p_uaf, shared_ready, shared_value, set_count, get_count>>
submitVars == <<submitted, rejected>>
engineVars == <<eng, eng_resp, n_complete>>
heapVars == <<allocs, releases, live_buffers, live_tokens>>
readerVars == <<response, resp_calls, out0, out1, i, reads, resp_deleted>>

vars == <<mainVars, healthVars, seen_model_ready, handleVars, promiseVars,
          submitVars, engineVars, heapVars, readerVars>>

(***************************************************************************)
(* Values.                                                                 *)
(***************************************************************************)
NULL == 0

TRTSERVER_MEMORY_CPU == "CPU"

TRTSERVER_MEMORY_GPU == "GPU"

MemoryTypes == {TRTSERVER_MEMORY_CPU, TRTSERVER_MEMORY_GPU}

MODEL_READY == "MODEL_READY"

ModelReadyStates == {"MODEL_UNKNOWN", "MODEL_READY", "MODEL_UNAVAILABLE",
                     "MODEL_LOADING", "MODEL_UNLOADING"}

\* What a model status poll can find (lines 222-236).
ModelPollResults == ModelReadyStates \cup {"no_model", "no_version"}

OutputNames == {"OUTPUT0", "OUTPUT1"}

InputNames == {"INPUT0", "INPUT1"}

\* std::vector<int32_t> input0_data(16), input1_data(16)
NumElems == 16

SizeofInt32 == 4

ExpectedByteSize == NumElems * SizeofInt32

\* Byte sizes the engine may ask the allocator for.
ByteSizes == {0, ExpectedByteSize \div 2, ExpectedByteSize}

\* Handles the engine may give the response it delivers: 1..MaxHandle.
MaxHandle == 2

ResponseHandles == 1..MaxHandle

\* if (++health_iters >= 10)
HealthMaxIters == 10

Terminal == {"done", "fail", "crashed"}

\* The lowest address not in use: what malloc / new hands out.
Fresh(S) == CHOOSE a \in 1..(Cardinality(S) + 1) : a \notin S /\ \A b \in 1..(a - 1) : b \in S

NoOutput == [content |-> NULL, byte_size |-> 0, memory_type |-> TRTSERVER_MEMORY_CPU]

NoResponse == [handle |-> NULL, status |-> "none", bad0 |-> NumElems, bad1 |-> NumElems]

Init ==
    /\ pc = "health_poll"
    /\ exit_code = -1
    /\ fail_at = "none"
    /\ call_failed = FALSE
    /\ health_iters = 0
    /\ health_polls = 0
    /\ seen_healthy = FALSE
    /\ seen_model_ready = FALSE
    /\ live_protobufs = 0
    /\ allocator = "none"
    /\ request_provider = "none"
    /\ inputs_set = {}
    /\ p = "none"
    /\ p_free_count = 0
    /\ p_uaf = FALSE
    /\ shared_ready = FALSE
    /\ shared_value = NULL
    /\ set_count = 0
    /\ get_count = 0
    /\ submitted = FALSE
    /\ rejected = FALSE
    /\ eng = "idle"
    /\ eng_resp = NoResponse
    /\ n_complete = 0
    /\ allocs = <<>>
    /\ releases = <<>>
    /\ live_buffers = {}
    /\ live_tokens = {}
    /\ response = NULL
    /\ resp_calls = <<>>
    /\ out0 = NoOutput
    /\ out1 = NoOutput
    /\ i = 0
    /\ reads = 0
    /\ resp_deleted = 0

(***************************************************************************)
(* FAIL and FAIL_IF_ERR: log and exit(1).                                  *)
(***************************************************************************)
FAIL(at) ==
    /\ pc' = "fail"
    /\ exit_code' = 1
    /\ fail_at' = at

Goto(next) ==
    /\ pc' = next
    /\ UNCHANGED <<exit_code, fail_at>>

FAIL_IF_ERR(err, at, next) ==
    /\ call_failed' = (call_failed \/ err)
    /\ IF err THEN FAIL(at) ELSE Goto(next)

(***************************************************************************)
(* Wait until the server is both live and ready (lines 156-176).           *)
(***************************************************************************)
\* if (live && ready) break;
HealthyCondition(live, ready) == live /\ ready

\* The test of line 171 with > for >=.
HealthTimeoutOffByOne(iters) == iters > HealthMaxIters

\* if (++health_iters >= 10) FAIL(...)
HealthTimeout(iters) == iters >= HealthMaxIters

HealthPoll ==
    /\ pc = "health_poll"
    /\ \E err, live, ready \in BOOLEAN :
        /\ health_polls' = health_polls + 1
        /\ call_failed' = (call_failed \/ err)
        /\ IF err
           THEN /\ FAIL("health_error")
                /\ UNCHANGED <<health_iters, seen_healthy>>
           ELSE /\ seen_healthy' = (seen_healthy \/ (live /\ ready))
                /\ IF HealthyCondition(live, ready)
                   THEN /\ Goto("server_status")
                        /\ UNCHANGED health_iters
                   ELSE /\ health_iters' = health_iters + 1
                        /\ IF HealthTimeout(health_iters + 1)
                           THEN FAIL("health_timeout")
                           ELSE Goto("health_poll")
    /\ UNCHANGED <<seen_model_ready, handleVars, promiseVars, submitVars,
                   engineVars, heapVars, readerVars>>

(***************************************************************************)
(* Print status of the server (lines 178-202).                             *)
(***************************************************************************)
ServerStatus ==
    /\ pc = "server_status"
    /\ \E err \in BOOLEAN :
        /\ FAIL_IF_ERR(err, "server_status", "server_status_parse")
        /\ live_protobufs' = IF err THEN live_protobufs ELSE live_protobufs + 1
    /\ UNCHANGED <<healthVars, seen_model_ready, allocator, request_provider,
                   inputs_set, promiseVars, submitVars, engineVars, heapVars,
                   readerVars>>

ServerStatusParse ==
    /\ pc = "server_status_parse"
    /\ \E err, parsed \in BOOLEAN :
        FAIL_IF_ERR(err \/ ~parsed, "server_status_parse", "server_status_delete")
    /\ UNCHANGED <<healthVars, seen_model_ready, handleVars, promiseVars,
                   submitVars, engineVars, heapVars, readerVars>>

ServerStatusDelete ==
    /\ pc = "server_status_delete"
    /\ live_protobufs' = live_protobufs - 1
    /\ \E err \in BOOLEAN :
        FAIL_IF_ERR(err, "server_status_delete", "model_status")
    /\ UNCHANGED <<healthVars, seen_model_ready, allocator, request_provider,
                   inputs_set, promiseVars, submitVars, engineVars, heapVars,
                   readerVars>>

(***************************************************************************)
(* Wait for the simple model to become available (lines 204-243).  The     *)
(* loop has no iteration count.                                            *)
(***************************************************************************)
\* The test of line 234 leaving the loop as soon as the model is not
\* unavailable.
ModelReadyConditionLoose(ready_state) == ready_state # "MODEL_UNAVAILABLE"

\* if (vitr->second.ready_state() == ni::ModelReadyState::MODEL_READY) break;
ModelReadyCondition(ready_state) == ready_state = MODEL_READY

ModelStatus ==
    /\ pc = "model_status"
    /\ \E err \in BOOLEAN :
        /\ FAIL_IF_ERR(err, "model_status", "model_status_check")
        /\ live_protobufs' = IF err THEN live_protobufs ELSE live_protobufs + 1
    /\ UNCHANGED <<healthVars, seen_model_ready, allocator, request_provider,
                   inputs_set, promiseVars, submitVars, engineVars, heapVars,
                   readerVars>>

ModelStatusCheck ==
    /\ pc = "model_status_check"
    /\ \E err, parsed \in BOOLEAN, found \in ModelPollResults :
        /\ call_failed' = (call_failed \/ err \/ ~parsed)
        /\ IF err \/ ~parsed \/ found \in {"no_model", "no_version"}
           THEN /\ FAIL("model_status_check")
                /\ UNCHANGED seen_model_ready
           ELSE /\ seen_model_ready' = (seen_model_ready \/ found = MODEL_READY)
                /\ IF ModelReadyCondition(found)
                   THEN Goto("allocator_new")
                   ELSE Goto("model_status_delete")
    /\ UNCHANGED <<healthVars, handleVars, promiseVars, submitVars, engineVars,
                   heapVars, readerVars>>

ModelStatusDelete ==
    /\ pc = "model_status_delete"
    /\ live_protobufs' = live_protobufs - 1
    /\ \E err \in BOOLEAN :
        FAIL_IF_ERR(err, "model_status_delete", "model_status")
    /\ UNCHANGED <<healthVars, seen_model_ready, allocator, request_provider,
                   inputs_set, promiseVars, submitVars, engineVars, heapVars,
                   readerVars>>

(***************************************************************************)
(* Create the allocator and the request provider, bind the inputs          *)
(* (lines 245-302).                                                        *)
(***************************************************************************)
AllocatorNew ==
    /\ pc = "allocator_new"
    /\ \E err \in BOOLEAN :
        /\ FAIL_IF_ERR(err, "allocator_new", "provider_new")
        /\ allocator' = IF err THEN allocator ELSE "live"
    /\ UNCHANGED <<healthVars, seen_model_ready, live_protobufs, request_provider,
                   inputs_set, promiseVars, submitVars, engineVars, heapVars,
                   readerVars>>

RequestProviderNew ==
    /\ pc = "provider_new"
    /\ \E err \in BOOLEAN :
        /\ FAIL_IF_ERR(err, "provider_new", "set_input0")
        /\ request_provider' = IF err THEN request_provider ELSE "live"
    /\ UNCHANGED <<healthVars, seen_model_ready, live_protobufs, allocator,
                   inputs_set, promiseVars, submitVars, engineVars, heapVars,
                   readerVars>>

SetInputData(at, name, next) ==
    /\ pc = at
    /\ \E err \in BOOLEAN :
        /\ FAIL_IF_ERR(err, at, next)
        /\ inputs_set' = IF err THEN inputs_set ELSE inputs_set \cup {name}
    /\ UNCHANGED <<healthVars, seen_model_ready, live_protobufs, allocator,
                   request_provider, promiseVars, submitVars, engineVars,
                   heapVars, readerVars>>

SetInput0 == SetInputData("set_input0", "INPUT0", "set_input1")

SetInput1 == SetInputData("set_input1", "INPUT1", "new_promise")

(***************************************************************************)
(* Perform inference (lines 304-319).                                      *)
(***************************************************************************)
\* auto p = new std::promise<...>(); completed = p->get_future();
NewPromise ==
    /\ pc = "new_promise"
    /\ p' = "allocated"
    /\ Goto("infer_async")
    /\ UNCHANGED call_failed
    /\ UNCHANGED <<healthVars, seen_model_ready, handleVars, p_free_count, p_uaf,
                   shared_ready, shared_value, set_count, get_count, submitVars,
                   engineVars, heapVars, readerVars>>

\* The submission's error ignored.
AfterSubmitIgnoreError(err) == "provider_delete"

\* The request provider's deletion of lines 317-319 left out.
AfterSubmitSkipDelete(err) == IF err THEN "fail" ELSE "wait"

\* Where main goes after TRTSERVER_ServerInferAsync returned.
AfterSubmit(err) == IF err THEN "fail" ELSE "provider_delete"

\* The engine accepts the request and starts to run it, or rejects it and
\* fires no callback.
ServerInferAsync ==
    /\ pc = "infer_async"
    /\ submitted' = TRUE
    /\ \E err \in BOOLEAN :
        /\ rejected' = err
        /\ call_failed' = (call_failed \/ err)
        /\ eng' = IF err THEN eng ELSE "running"
        /\ IF AfterSubmit(err) = "fail"
           THEN FAIL("infer_async")
           ELSE Goto(AfterSubmit(err))
    /\ UNCHANGED <<healthVars, seen_model_ready, handleVars, promiseVars,
                   eng_resp, n_complete, heapVars, readerVars>>

RequestProviderDelete ==
    /\ pc = "provider_delete"
    /\ request_provider' = IF request_provider = "live" THEN "deleted" ELSE "double_delete"
    /\ \E err \in BOOLEAN :
        FAIL_IF_ERR(err, "provider_delete", "wait")
    /\ UNCHANGED <<healthVars, seen_model_ready, live_protobufs, allocator,
                   inputs_set, promiseVars, submitVars, engineVars, heapVars,
                   readerVars>>

(***************************************************************************)
(* The allocator callbacks (lines 56-102).                                 *)
(***************************************************************************)
\* ResponseAlloc with the byte_size test of line 69 dropped: malloc is called
\* for every size.
ResponseAllocMallocAlways(tensor_name, byte_size, memory_type, malloc_result, new_string) ==
    IF byte_size = 0 \/ memory_type = TRTSERVER_MEMORY_CPU
    THEN [buffer |-> malloc_result,
          buffer_userp |-> new_string,
          userp_name |-> tensor_name,
          malloc_called |-> TRUE,
          err |-> NULL]
    ELSE [buffer |-> NULL,
          buffer_userp |-> NULL,
          userp_name |-> "",
          malloc_called |-> FALSE,
          err |-> NULL]

\* ResponseAlloc with the memory type test of line 68 dropped: every memory
\* type is served from the heap.
ResponseAllocAnyMemory(tensor_name, byte_size, memory_type, malloc_result, new_string) ==
    [buffer |-> IF byte_size = 0 THEN NULL ELSE malloc_result,
     buffer_userp |-> new_string,
     userp_name |-> tensor_name,
     malloc_called |-> byte_size # 0,
     err |-> NULL]

\* ResponseAlloc keeping the tensor name in one string shared by all calls
\* instead of a new std::string per call (line 70).
ResponseAllocSharedToken(tensor_name, byte_size, memory_type, malloc_result, new_string) ==
    IF byte_size = 0 \/ memory_type = TRTSERVER_MEMORY_CPU
    THEN [buffer |-> IF byte_size = 0 THEN NULL ELSE malloc_result,
          buffer_userp |-> 1,
          userp_name |-> tensor_name,
          malloc_called |-> byte_size # 0,
          err |-> NULL]
    ELSE [buffer |-> NULL,
          buffer_userp |-> NULL,
          userp_name |-> "",
          malloc_called |-> FALSE,
          err |-> NULL]

\* malloc_result is what malloc(byte_size) returns if called, new_string the
\* address of the std::string that new returns if called; userp_name is the
\* string's value.
ResponseAlloc(tensor_name, byte_size, memory_type, malloc_result, new_string) ==
    IF byte_size = 0 \/ memory_type = TRTSERVER_MEMORY_CPU
    THEN [buffer |-> IF byte_size = 0 THEN NULL ELSE malloc_result,
          buffer_userp |-> new_string,
          userp_name |-> tensor_name,
          malloc_called |-> byte_size # 0,
          err |-> NULL]
    ELSE [buffer |-> NULL,
          buffer_userp |-> NULL,
          userp_name |-> "",
          malloc_called |-> FALSE,
          err |-> NULL]

\* name is the string deleted: the token, or a placeholder made for a null
\* token.
ResponseRelease(buffer, buffer_userp, new_string) ==
    [freed |-> buffer,
     name |-> IF buffer_userp # NULL THEN buffer_userp ELSE new_string,
     new_called |-> buffer_userp = NULL,
     err |-> NULL]

(***************************************************************************)
(* The engine's thread: it runs the accepted request, asking the allocator *)
(* for each output's buffer, then completes.                               *)
(***************************************************************************)
\* An allocation the engine can put an output in.
Satisfied(a) == a.buffer # NULL \/ (a.byte_size = 0 /\ a.buffer_userp # NULL)

HasBuffer(t) == \E k \in 1..Len(allocs) : allocs[k].tensor_name = t /\ Satisfied(allocs[k])

\* ResponseAlloc was called for output t.
Called(t) == \E k \in 1..Len(allocs) : allocs[k].tensor_name = t

\* The allocation that holds output t.
AllocOf(t) == CHOOSE k \in 1..Len(allocs) : allocs[k].tensor_name = t /\ Satisfied(allocs[k])

EngineAlloc ==
    /\ eng = "running"
    /\ pc \notin Terminal
    /\ \E t \in OutputNames, byte_size \in ByteSizes, memory_type \in MemoryTypes,
          malloc_ok \in BOOLEAN :
        /\ ~Called(t)
        /\ LET r == ResponseAlloc(t, byte_size, memory_type,
                                  IF malloc_ok THEN Fresh(live_buffers) ELSE NULL,
                                  Fresh(live_tokens))
           IN  /\ r.malloc_called \/ malloc_ok
               /\ allocs' = Append(allocs,
                      [tensor_name |-> t, byte_size |-> byte_size,
                       memory_type |-> memory_type, buffer |-> r.buffer,
                       buffer_userp |-> r.buffer_userp,
                       userp_name |-> r.userp_name,
                       malloc_called |-> r.malloc_called, err |-> r.err])
               /\ live_buffers' = IF r.buffer # NULL
                                  THEN live_buffers \cup {r.buffer}
                                  ELSE live_buffers
               /\ live_tokens' = IF r.buffer_userp # NULL
                                 THEN live_tokens \cup {r.buffer_userp}
                                 ELSE live_tokens
    /\ UNCHANGED <<mainVars, healthVars, seen_model_ready, handleVars, promiseVars,
                   submitVars, engineVars, releases, readerVars>>

\* Outputs the engine may compute: all right, or wrong at one index.
BadIndexChoices == {0, NumElems - 1, NumElems}

\* p->set_value(response): the first half of InferComplete (lines 109-111).
InferCompleteSetValue ==
    /\ eng = "running"
    /\ pc \notin Terminal
    /\ \E h \in ResponseHandles, ok \in BOOLEAN, b0, b1 \in BadIndexChoices :
        /\ ok => \A t \in OutputNames : HasBuffer(t)
        /\ ~ok => (b0 = NumElems /\ b1 = NumElems)
        /\ eng_resp' = [handle |-> h, status |-> IF ok THEN "ok" ELSE "error",
                        bad0 |-> b0, bad1 |-> b1]
        /\ shared_value' = h
    /\ n_complete' = n_complete + 1
    /\ shared_ready' = TRUE
    /\ set_count' = set_count + 1
    /\ eng' = "set"
    /\ UNCHANGED <<mainVars, healthVars, seen_model_ready, handleVars, p,
                   p_free_count, p_uaf, get_count, submitVars, heapVars,
                   readerVars>>

\* delete p: the second half of InferComplete (line 112).
InferCompleteDelete ==
    /\ eng = "set"
    /\ pc \notin Terminal
    /\ p' = "freed"
    /\ p_free_count' = p_free_count + 1
    /\ eng' = "finished"
    /\ UNCHANGED <<mainVars, healthVars, seen_model_ready, handleVars, p_uaf,
                   shared_ready, shared_value, set_count, get_count, submitVars,
                   eng_resp, n_complete, heapVars, readerVars>>

(***************************************************************************)
(* Wait for the inference response and check the status (lines 321-323).   *)
(***************************************************************************)
\* A get() that does not wait.
FutureReadyNoWait == TRUE

\* completed.get() returns once the shared state holds a value.
FutureReady == shared_ready

FutureGet ==
    /\ pc = "wait"
    /\ FutureReady
    /\ response' = shared_value
    /\ get_count' = get_count + 1
    /\ Goto("response_status")
    /\ UNCHANGED call_failed
    /\ UNCHANGED <<healthVars, seen_model_ready, handleVars, p, p_free_count,
                   p_uaf, shared_ready, shared_value, set_count, submitVars,
                   engineVars, heapVars, resp_calls, out0, out1, i, reads,
                   resp_deleted>>

\* The response a handle denotes; a handle the engine did not deliver
\* denotes none.
ResponseOf(h) == IF h # NULL /\ h = eng_resp.handle THEN eng_resp ELSE NoResponse

\* The response's status ignored.
AfterStatusIgnoreError(err) == "response_header"

\* Where main goes after TRTSERVER_InferenceResponseStatus returned.
AfterStatus(err) == IF err THEN "fail" ELSE "response_header"

ResponseStatus ==
    /\ pc = "response_status"
    /\ resp_calls' = Append(resp_calls, "Status")
    /\ LET err == ResponseOf(response).status # "ok"
       IN  /\ call_failed' = (call_failed \/ err)
           /\ IF AfterStatus(err) = "fail"
              THEN FAIL("response_status")
              ELSE Goto(AfterStatus(err))
    /\ UNCHANGED <<healthVars, seen_model_ready, handleVars, promiseVars,
                   submitVars, engineVars, heapVars, response, out0, out1, i,
                   reads, resp_deleted>>

(***************************************************************************)
(* Print the response header metadata (lines 325-348).                     *)
(***************************************************************************)
ResponseHeader ==
    /\ pc = "response_header"
    /\ resp_calls' = Append(resp_calls, "Header")
    /\ \E err \in BOOLEAN :
        /\ FAIL_IF_ERR(err, "response_header", "response_header_parse")
        /\ live_protobufs' = IF err THEN live_protobufs ELSE live_protobufs + 1
    /\ UNCHANGED <<healthVars, seen_model_ready, allocator, request_provider,
                   inputs_set, promiseVars, submitVars, engineVars, heapVars,
                   response, out0, out1, i, reads, resp_deleted>>

ResponseHeaderParse ==
    /\ pc = "response_header_parse"
    /\ \E err, parsed \in BOOLEAN :
        FAIL_IF_ERR(err \/ ~parsed, "response_header_parse", "response_header_delete")
    /\ UNCHANGED <<healthVars, seen_model_ready, handleVars, promiseVars,
                   submitVars, engineVars, heapVars, readerVars>>

ResponseHeaderDelete ==
    /\ pc = "response_header_delete"
    /\ live_protobufs' = live_protobufs - 1
    /\ \E err \in BOOLEAN :
        FAIL_IF_ERR(err, "response_header_delete", "output0")
    /\ UNCHANGED <<healthVars, seen_model_ready, allocator, request_provider,
                   inputs_set, promiseVars, submitVars, engineVars, heapVars,
                   readerVars>>

(***************************************************************************)
(* Check the output tensor values (lines 350-410).                         *)
(***************************************************************************)
\* What TRTSERVER_InferenceResponseOutputData reports for output t: the
\* buffer the allocator gave for it, its size and its memory type.
OutputDescriptor(t) ==
    IF HasBuffer(t)
    THEN [content |-> allocs[AllocOf(t)].buffer,
          byte_size |-> allocs[AllocOf(t)].byte_size,
          memory_type |-> allocs[AllocOf(t)].memory_type]
    ELSE NoOutput

\* The checks of lines 359-370 left out.
OutputCheckNone(d) == "ok"

\* The two checks made on an output's descriptor: "ok", or the FAIL taken.
OutputCheck(d) ==
    IF d.byte_size # NumElems * SizeofInt32 THEN "byte_size"
    ELSE IF d.memory_type # TRTSERVER_MEMORY_CPU THEN "memory_type"
    ELSE "ok"

OutputData0 ==
    /\ pc = "output0"
    /\ resp_calls' = Append(resp_calls, "OutputData0")
    /\ \E err \in BOOLEAN :
        /\ call_failed' = (call_failed \/ err \/ ~HasBuffer("OUTPUT0"))
        /\ IF err \/ ~HasBuffer("OUTPUT0")
           THEN /\ FAIL("output0")
                /\ UNCHANGED out0
           ELSE /\ out0' = OutputDescriptor("OUTPUT0")
                /\ IF OutputCheck(OutputDescriptor("OUTPUT0")) = "ok"
                   THEN Goto("output1")
                   ELSE FAIL("output0_check")
    /\ UNCHANGED <<healthVars, seen_model_ready, handleVars, promiseVars,
                   submitVars, engineVars, heapVars, response, out1, i, reads,
                   resp_deleted>>

OutputData1 ==
    /\ pc = "output1"
    /\ resp_calls' = Append(resp_calls, "OutputData1")
    /\ \E err \in BOOLEAN :
        /\ call_failed' = (call_failed \/ err \/ ~HasBuffer("OUTPUT1"))
        /\ IF err \/ ~HasBuffer("OUTPUT1")
           THEN /\ FAIL("output1")
                /\ UNCHANGED out1
           ELSE /\ out1' = OutputDescriptor("OUTPUT1")
                /\ IF OutputCheck(OutputDescriptor("OUTPUT1")) = "ok"
                   THEN Goto("check_values")
                   ELSE FAIL("output1_check")
    /\ UNCHANGED <<healthVars, seen_model_ready, handleVars, promiseVars,
                   submitVars, engineVars, heapVars, response, out0, i, reads,
                   resp_deleted>>

\* input0_data[k] = k; input1_data[k] = 1 (lines 286-291).
Input0Data(k) == k

Input1Data(k) == 1

\* What the engine wrote in the outputs' buffers.
Output0Result(k) == Input0Data(k) + Input1Data(k) + (IF k = eng_resp.bad0 THEN 1 ELSE 0)

Output1Result(k) == Input0Data(k) - Input1Data(k) + (IF k = eng_resp.bad1 THEN 1 ELSE 0)

\* The loop's iteration without the test of the difference (lines 407-409).
CheckValuesSumOnly ==
    /\ pc = "check_values"
    /\ reads' = reads + 2
    /\ UNCHANGED call_failed
    /\ IF Input0Data(i) + Input1Data(i) # Output0Result(i)
       THEN /\ FAIL("incorrect_sum")
            /\ UNCHANGED i
       ELSE /\ i' = i + 1
            /\ IF i + 1 < NumElems
               THEN Goto("check_values")
               ELSE Goto("response_delete")
    /\ UNCHANGED <<healthVars, seen_model_ready, handleVars, promiseVars,
                   submitVars, engineVars, heapVars, response, resp_calls, out0,
                   out1, resp_deleted>>

\* One iteration of the loop of lines 398-410.
CheckValues ==
    /\ pc = "check_values"
    /\ reads' = reads + 2
    /\ UNCHANGED call_failed
    /\ IF Input0Data(i) + Input1Data(i) # Output0Result(i)
       THEN /\ FAIL("incorrect_sum")
            /\ UNCHANGED i
       ELSE IF Input0Data(i) - Input1Data(i) # Output1Result(i)
       THEN /\ FAIL("incorrect_difference")
            /\ UNCHANGED i
       ELSE /\ i' = i + 1
            /\ IF i + 1 < NumElems
               THEN Goto("check_values")
               ELSE Goto("response_delete")
    /\ UNCHANGED <<healthVars, seen_model_ready, handleVars, promiseVars,
                   submitVars, engineVars, heapVars, response, resp_calls, out0,
                   out1, resp_deleted>>

(***************************************************************************)
(* Delete the response and the allocator (lines 412-420).  Deleting the    *)
(* response makes the engine release each buffer the allocator gave.       *)
(***************************************************************************)
\* The allocations whose buffer the engine has still to release.
ToRelease ==
    {k \in 1..Len(allocs) :
        /\ allocs[k].buffer # NULL
        /\ \A j \in 1..Len(releases) : releases[j].alloc # k}

\* main going on to delete the allocator without deleting the response.
InferenceResponseDeleteSkipped ==
    /\ pc = "response_delete"
    /\ Goto("allocator_delete")
    /\ UNCHANGED <<call_failed, healthVars, seen_model_ready, handleVars,
                   promiseVars, submitVars, engineVars, heapVars, readerVars>>

InferenceResponseDeleteBegin ==
    /\ pc = "response_delete"
    /\ resp_deleted' = resp_deleted + 1
    /\ Goto("releasing")
    /\ UNCHANGED call_failed
    /\ UNCHANGED <<healthVars, seen_model_ready, handleVars, promiseVars,
                   submitVars, engineVars, heapVars, response, resp_calls, out0,
                   out1, i, reads>>

EngineRelease ==
    /\ pc = "releasing"
    /\ \E k \in ToRelease :
        LET r == ResponseRelease(allocs[k].buffer, allocs[k].buffer_userp,
                                 Fresh(live_tokens))
        IN  /\ releases' = Append(releases,
                   [alloc |-> k, buffer |-> allocs[k].buffer,
                    buffer_userp |-> allocs[k].buffer_userp,
                    freed |-> r.freed, deleted |-> r.name])
            /\ live_buffers' = live_buffers \ {r.freed}
            /\ live_tokens' = live_tokens \ {r.name}
    /\ UNCHANGED <<mainVars, healthVars, seen_model_ready, handleVars, promiseVars,
                   submitVars, engineVars, allocs, readerVars>>

InferenceResponseDeleteEnd ==
    /\ pc = "releasing"
    /\ ToRelease = {}
    /\ \E err \in BOOLEAN :
        FAIL_IF_ERR(err, "response_delete", "allocator_delete")
    /\ UNCHANGED <<healthVars, seen_model_ready, handleVars, promiseVars,
                   submitVars, engineVars, heapVars, readerVars>>

ResponseAllocatorDelete ==
    /\ pc = "allocator_delete"
    /\ allocator' = "deleted"
    /\ \E err \in BOOLEAN :
        /\ call_failed' = (call_failed \/ err)
        /\ IF err
           THEN FAIL("allocator_delete")
           ELSE /\ pc' = "done"
                /\ exit_code' = 0
                /\ UNCHANGED fail_at
    /\ UNCHANGED <<healthVars, seen_model_ready, live_protobufs, request_provider,
                   inputs_set, promiseVars, submitVars, engineVars, heapVars,
                   readerVars>>

(***************************************************************************)
(* A second invocation of the completion callback with the same userp,     *)
(* after the first one returned: p points to the freed promise, so         *)
(* p->set_value and delete p are undefined.  The process dies, or the      *)
(* freed memory is written and freed again.                                *)
(***************************************************************************)
InferCompleteSecond ==
    /\ eng = "finished"
    /\ pc \notin Terminal
    /\ n_complete = 1
    /\ n_complete' = n_complete + 1
    /\ p_uaf' = TRUE
    /\ \E outcome \in {"crash", "overwrite"}, h \in ResponseHandles :
        IF outcome = "crash"
        THEN /\ h = 1
             /\ pc' = "crashed"
             /\ exit_code' = 134
             /\ fail_at' = "InferComplete"
             /\ UNCHANGED call_failed
             /\ UNCHANGED <<p_free_count, shared_value, set_count>>
        ELSE /\ shared_value' = h
             /\ set_count' = set_count + 1
             /\ p_free_count' = p_free_count + 1
             /\ UNCHANGED mainVars
    /\ UNCHANGED <<healthVars, seen_model_ready, handleVars, p, shared_ready,
                   get_count, submitVars, eng, eng_resp, heapVars, readerVars>>

Main ==
    \/ HealthPoll
    \/ ServerStatus
    \/ ServerStatusParse
    \/ ServerStatusDelete
    \/ ModelStatus
    \/ ModelStatusCheck
    \/ ModelStatusDelete
    \/ AllocatorNew
    \/ RequestProviderNew
    \/ SetInput0
    \/ SetInput1
    \/ NewPromise
    \/ ServerInferAsync
    \/ RequestProviderDelete
    \/ FutureGet
    \/ ResponseStatus
    \/ ResponseHeader
    \/ ResponseHeaderParse
    \/ ResponseHeaderDelete
    \/ OutputData0
    \/ OutputData1
    \/ CheckValues
    \/ InferenceResponseDeleteBegin
    \/ EngineRelease
    \/ InferenceResponseDeleteEnd
    \/ ResponseAllocatorDelete

Engine ==
    \/ EngineAlloc
    \/ InferCompleteSetValue
    \/ InferCompleteDelete

Next == Main \/ Engine

Spec == Init /\ [][Next]_vars

\* Both threads keep running: main's calls and sleeps return, the engine
\* runs what it accepted.
FairSpec == Init /\ [][Next]_vars /\ WF_vars(Main) /\ WF_vars(Engine)

\* The program with a completion callback that is invoked a second time.
NextDup == Next \/ InferCompleteSecond

SpecDup == Init /\ [][NextDup]_vars

(***************************************************************************)
(* Properties.                                                             *)
(***************************************************************************)
\* The number of ResponseRelease calls made for allocation k.
ReleaseCount(k) == Cardinality({j \in 1..Len(releases) : releases[j].alloc = k})

\* pc is past the wait on the future.
PastWait ==
    pc \in {"response_status", "response_header", "response_header_parse",
            "response_header_delete", "output0", "output1", "check_values",
            "response_delete", "releasing", "allocator_delete", "done"}

\* C1: once a response was delivered through InferComplete to the caller
\* and the program has terminated (return 0 or any FAIL exit),
\* ResponseRelease has run exactly once for each non-null buffer
\* ResponseAlloc returned, and only for buffers ResponseAlloc returned.
C1_ReleasedExactlyOnceAtExit ==
    (n_complete >= 1 /\ get_count = 1 /\ pc \in Terminal) =>
        /\ \A k \in 1..Len(allocs) : allocs[k].buffer # NULL => ReleaseCount(k) = 1
        /\ \A j \in 1..Len(releases) :
              \E k \in 1..Len(allocs) :
                  allocs[k].buffer # NULL /\ allocs[k].buffer = releases[j].freed

\* C2: if no model poll ever finds MODEL_READY, the program ends with a
\* fatal error: eventually a poll found the model ready or main has failed.
C2_ModelPollingTerminates == <>(seen_model_ready \/ pc = "fail")

\* C3: the completion signal is set at most once and consumed at most once;
\* the caller's get returns only after the value was set and returns the
\* handle InferComplete was given; a run that goes past the wait has set and
\* consumed it exactly once.
C3_CompletionSignalOnce ==
    /\ set_count <= 1
    /\ get_count <= 1
    /\ set_count = n_complete
    /\ get_count = 1 =>
          /\ set_count = 1
          /\ response # NULL
          /\ response = eng_resp.handle
    /\ PastWait => (get_count = 1 /\ set_count = 1)
    /\ (pc = "wait" /\ ~shared_ready) => (get_count = 0 /\ set_count = 0)

\* C3 witness: main has consumed the response while InferComplete has set
\* the value and not yet deleted the promise.
C3_Witness ==
    /\ pc = "response_status"
    /\ eng = "set"
    /\ get_count = 1
    /\ response = MaxHandle

\* C4: a second invocation of InferComplete with the same userp is
\* ignored: it stores no second value, does not touch the freed promise,
\* does not free it again, and the process survives it.
C4_SecondCompletionIgnored ==
    n_complete > 1 =>
        /\ ~p_uaf
        /\ set_count = 1
        /\ p_free_count = 1
        /\ pc # "crashed"

\* C5: every ResponseAlloc call with byte_size 0, for every memory type,
\* returns a null buffer without calling malloc, a non-null token holding
\* the tensor name, and success.
C5_ZeroSizeAlloc ==
    \A k \in 1..Len(allocs) :
        allocs[k].byte_size = 0 =>
            /\ allocs[k].buffer = NULL
            /\ ~allocs[k].malloc_called
            /\ allocs[k].buffer_userp # NULL
            /\ allocs[k].userp_name = allocs[k].tensor_name
            /\ allocs[k].err = NULL

\* C5 witness: zero-size calls were made for both memory types.
C5_Witness ==
    /\ \E k \in 1..Len(allocs) :
          allocs[k].byte_size = 0 /\ allocs[k].memory_type = TRTSERVER_MEMORY_GPU
    /\ \E k \in 1..Len(allocs) :
          allocs[k].byte_size = 0 /\ allocs[k].memory_type = TRTSERVER_MEMORY_CPU

\* C6 as stated: every ResponseAlloc call for a memory type other than CPU,
\* of any byte size including 0, returns a null buffer, a null token and
\* success.
C6_UnsupportedMemoryAnySize ==
    \A k \in 1..Len(allocs) :
        allocs[k].memory_type # TRTSERVER_MEMORY_CPU =>
            /\ allocs[k].buffer = NULL
            /\ allocs[k].buffer_userp = NULL
            /\ allocs[k].err = NULL

\* C6 amended: every ResponseAlloc call for a memory type other than CPU
\* returns a null buffer and success, without calling malloc; its token is
\* null when byte_size is not 0 and a copy of the tensor name when it is 0.
C6_UnsupportedMemoryNonZero ==
    \A k \in 1..Len(allocs) :
        allocs[k].memory_type # TRTSERVER_MEMORY_CPU =>
            /\ allocs[k].buffer = NULL
            /\ ~allocs[k].malloc_called
            /\ allocs[k].err = NULL
            /\ allocs[k].byte_size # 0 => allocs[k].buffer_userp = NULL
            /\ allocs[k].byte_size = 0 =>
                  /\ allocs[k].buffer_userp # NULL
                  /\ allocs[k].userp_name = allocs[k].tensor_name

\* C6 witness: a non-zero size was asked for in GPU memory.
C6_Witness ==
    \E k \in 1..Len(allocs) :
        /\ allocs[k].memory_type = TRTSERVER_MEMORY_GPU
        /\ allocs[k].byte_size = ExpectedByteSize
        /\ allocs[k].buffer_userp = NULL

\* C7: TRTSERVER_ServerInferAsync is invoked, or about to be, only after a
\* health poll reported live and ready and a model poll reported
\* MODEL_READY.
C7_SubmitOnlyWhenReady ==
    (submitted \/ pc = "infer_async") => (seen_healthy /\ seen_model_ready)

\* C7 witness: a request was accepted after a health poll that was not
\* healthy.
C7_Witness ==
    /\ submitted
    /\ ~rejected
    /\ health_iters > 0

\* C8: the health loop makes at most 10 polls; ten polls without a healthy
\* one end in the fatal error, which is raised only then; main is past the
\* loop only after a poll that reported live and ready.
C8_HealthLoopBounded ==
    /\ health_polls <= HealthMaxIters
    /\ (health_polls = HealthMaxIters /\ ~seen_healthy) => pc = "fail"
    /\ fail_at = "health_timeout" => (health_polls = HealthMaxIters /\ ~seen_healthy)
    /\ (pc # "health_poll" /\ fail_at \notin {"health_error", "health_timeout"})
          => seen_healthy

\* C8 witness: the tenth poll was unhealthy and the program failed.
C8_Witness ==
    /\ pc = "fail"
    /\ fail_at = "health_timeout"
    /\ health_polls = HealthMaxIters

\* C9: after a rejected submission main has failed: it does not wait on
\* the future, InferComplete does not run, no response accessor is called.
C9_RejectedSubmissionFails ==
    rejected =>
        /\ pc = "fail"
        /\ exit_code = 1
        /\ fail_at = "infer_async"
        /\ get_count = 0
        /\ n_complete = 0
        /\ resp_calls = <<>>
        /\ reads = 0

\* C9 witness: a submission was rejected.
C9_Witness ==
    /\ rejected
    /\ submitted
    /\ p = "allocated"

\* C10: the first call on a delivered response is
\* TRTSERVER_InferenceResponseStatus, and when the response's status is an
\* error no other accessor is called and no output element is read.
C10_StatusFirst ==
    /\ resp_calls # <<>> => resp_calls[1] = "Status"
    /\ (PastWait /\ pc # "response_status") => resp_calls # <<>>
    /\ ResponseOf(response).status # "ok" =>
          /\ \A j \in 1..Len(resp_calls) : resp_calls[j] = "Status"
          /\ reads = 0
          /\ out0 = NoOutput
          /\ out1 = NoOutput

\* C10 witness: the delivered response reported an error and main failed on
\* it, with buffers allocated for it.
C10_Witness ==
    /\ get_count = 1
    /\ eng_resp.status = "error"
    /\ resp_calls = <<"Status">>
    /\ fail_at = "response_status"
    /\ live_buffers # {}

\* The elements of a sequence.
RangeOf(seq) == {seq[j] : j \in 1..Len(seq)}

\* The accessor calls main makes on a response it reads to the end.
AllAccessorCalls == <<"Status", "Header", "OutputData0", "OutputData1">>

\* C11: the response is deleted at most once; a run in which the caller got
\* a response has deleted it exactly once when it terminates; the deletion
\* and every ResponseRelease come after all accessor calls and after all
\* reads of the outputs (so none is made after them).
C11_ResponseDeletedOnce ==
    /\ resp_deleted <= 1
    /\ (get_count = 1 /\ pc \in Terminal) => resp_deleted = 1
    /\ (resp_deleted >= 1 \/ releases # <<>>) =>
          /\ resp_deleted = 1
          /\ resp_calls = AllAccessorCalls
          /\ i = NumElems
          /\ reads = 2 * NumElems

\* The engine reported output t, asked for with accessor call c, as 64 bytes
\* in CPU memory.
ReportedAsExpected(t, c) ==
    /\ c \in RangeOf(resp_calls)
    /\ HasBuffer(t)
    /\ allocs[AllocOf(t)].byte_size = NumElems * SizeofInt32
    /\ allocs[AllocOf(t)].memory_type = TRTSERVER_MEMORY_CPU

\* The outputs the engine computed are the sum and the difference.
ValuesCorrect ==
    \A k \in 0..(NumElems - 1) :
        /\ Output0Result(k) = Input0Data(k) + Input1Data(k)
        /\ Output1Result(k) = Input0Data(k) - Input1Data(k)

AllSucceeded ==
    /\ ~call_failed
    /\ ReportedAsExpected("OUTPUT0", "OutputData0")
    /\ ReportedAsExpected("OUTPUT1", "OutputData1")
    /\ ValuesCorrect

C13_TokensDestroyedOnce ==
    /\ \A j \in 1..Len(releases) :
          releases[j].buffer_userp # NULL =>
              releases[j].deleted = allocs[releases[j].alloc].buffer_userp
    /\ \A k \in 1..Len(allocs) :
          allocs[k].buffer_userp # NULL =>
              /\ ReleaseCount(k) <= 1
              /\ ReleaseCount(k) = 0 => allocs[k].buffer_userp \in live_tokens
    /\ (pc \in Terminal \/ pc = "allocator_delete") =>
          /\ live_tokens = {}
          /\ \A k \in 1..Len(allocs) :
                allocs[k].buffer_userp # NULL => ReleaseCount(k) = 1

\* C14: the promise is freed at most once, only by InferComplete after it
\* set the value, and never accessed after that; when a run that allocated
\* it terminates, on the accepted and on the rejected path, it has been
\* freed exactly once.
C14_PromiseFreedOnce ==
    /\ p_free_count <= 1
    /\ ~p_uaf
    /\ p = "freed" => (p_free_count = 1 /\ set_count = 1 /\ n_complete = 1)
    /\ (p # "none" /\ pc \in Terminal) => (p = "freed" /\ p_free_count = 1)

\* The allocations not yet released.
LiveAllocs == {k \in 1..Len(allocs) : ReleaseCount(k) = 0}

C17_ProviderDeletedOnce ==
    /\ request_provider # "double_delete"
    /\ request_provider = "deleted" =>
          /\ submitted
          /\ ~rejected
          /\ pc \notin {"provider_new", "set_input0", "set_input1", "new_promise",
                        "infer_async", "provider_delete"}
    /\ pc \in {"set_input0", "set_input1", "infer_async", "provider_delete"} =>
          request_provider = "live"
    /\ (submitted /\ ~rejected /\ pc # "provider_delete") => request_provider = "deleted"
    /\ (pc = "wait" \/ get_count > 0) => request_provider = "deleted"

\* C17 witness: the provider was deleted while the engine was between its
\* two ResponseAlloc calls, and main waits.
C17_Witness ==
    /\ request_provider = "deleted"
    /\ pc = "wait"
    /\ eng = "running"
    /\ Len(allocs) = 1

\* main is between obtaining a protobuf handle and deleting it.
InProtobufBlock ==
    pc \in {"server_status_parse", "server_status_delete", "model_status_check",
            "model_status_delete", "response_header_parse",
            "response_header_delete"}

\* C18: at most one protobuf handle is held at a time and none is held once
\* main has moved past the block or loop iteration that obtained it, also
\* when the model loop is left on MODEL_READY.
C18_ProtobufsDeleted ==
    /\ live_protobufs \in {0, 1}
    /\ (~InProtobufBlock /\ pc # "fail") => live_protobufs = 0

\* C19: the allocator is deleted only after TRTSERVER_InferenceResponseDelete
\* returned: by then the engine has made its ResponseAlloc calls and
\* completed the request, every buffer was released, and no ResponseAlloc or
\* ResponseRelease can follow.
C19_AllocatorDeletedLast ==
    /\ pc = "allocator_delete" => (resp_deleted = 1 /\ ToRelease = {})
    /\ allocator = "deleted" =>
          /\ resp_deleted = 1
          /\ ToRelease = {}
          /\ eng \in {"set", "finished"}
          /\ \A t \in OutputNames : Called(t)
          /\ ~ENABLED EngineAlloc
          /\ ~ENABLED EngineRelease
    /\ (allocs # <<>> \/ releases # <<>>) => allocator \in {"live", "deleted"}

\* C19 witness: the allocator was deleted after both buffers were released.
C19_Witness ==
    /\ allocator = "deleted"
    /\ pc = "done"
    /\ Len(releases) = 2

====
